---- MODULE Spec2Model ----
(***************************************************************************)
(* Failure tracking of the multi-ping monitor:                             *)
(*   TimeoutTracker  (src/app/utils/timeout_tracker.py)                    *)
(*   IncidentManager (src/app/utils/incident_manager.py)                   *)
(*                                                                         *)
(* The three CSV artefacts are the state: timeout_tracking.csv (F),        *)
(* whatsapp_alerted_list.csv (AlertLedger), incident_tracking.csv          *)
(* (IncidentTracking).  One action per public operation of the tracker.    *)
(* Timestamps are integer clock ticks; the identity columns device_id,     *)
(* merk, os, kondisi are copied exactly like hostname and are represented  *)
(* by the hostname column.                                                 *)
(***************************************************************************)
EXTENDS Integers, Sequences, FiniteSets, TLC

(* ------------------------------ bounds -------------------------------- *)
MaxBatch == 2      \* longest ping_results list
MaxTime  == 2      \* last clock tick
MaxOver  == 1      \* failing updates counted beyond the alert threshold
MaxThreads == 2    \* loop threads started over the life of the service
MaxCallers == 2    \* threads calling update_timeout_tracking at a time
MaxMonitorTime == 4  \* last tick of the clock of the database monitor

(* ------------------------- configuration ------------------------------ *)
(* The clock ticks once per incident threshold period (60 minutes unless   *)
(* configured otherwise); the alert threshold is read at construction and   *)
(* is a variable, so that several configurations are checked.               *)
whatsapp_enabled == TRUE          \* ENABLE_WHATSAPP_TIMEOUT_ALERTS
incident_threshold_minutes == 1   \* INCIDENT_THRESHOLD_MINUTES, in clock ticks
device_check_interval == 2        \* DEVICE_CHECK_INTERVAL, in monitor ticks
Thresholds == {1, 2, 3}           \* values of WHATSAPP_TIMEOUT_THRESHOLD

(* --------------------------- file layout ------------------------------ *)
HeaderBytes    == 108   \* header line of timeout_tracking.csv plus CRLF
GuardBytes     == 200   \* size above which an empty write is refused
TimestampBytes == 26    \* datetime.now().isoformat()
SeparatorBytes == 11    \* nine commas and CRLF

Addrs     == {"1.1.1.1", "1.1.1.2"}
Hostnames == {""}
WriteOutcomes == {"ok", "open_failed", "write_failed"}

VARIABLES
  whatsapp_threshold,     \* alert threshold read from the configuration
  timeout_csv,            \* rows of timeout_tracking.csv, in file order
  alerted_list_csv,       \* addresses of whatsapp_alerted_list.csv
  incident_tracking_csv,  \* addresses of incident_tracking.csv
  now,                    \* wall clock
  \* what the latest step did (empty after a step that is not an update)
  op,                     \* "init", "update", "reset" or "tick"
  ping_results,           \* the batch of the latest update
  devices_to_alert,       \* rows handed to the batch alert
  alert_delivery,         \* "none", "ok" or "fail"
  recovery_sent,          \* addresses for which a recovery notice was sent
  created_incidents,      \* addresses for which an incident row was inserted
  analytics_appended,     \* points appended to today's analytics log
  \* history, per address, of the current outage episode
  alert_attempts,         \* batch alerts attempted
  alert_delivered,        \* batch alerts delivered
  incident_rows,          \* incident rows inserted
  streak,                 \* failing cycles since the address was untracked
  \* CSVManager: the directory of ping results and one publication
  csv_dir,                \* file name -> "missing" or the file's content
  pub_pc,                 \* position in write_ping_results_to_csv
  pub_args,               \* its arguments results and active_ips
  existing_data,          \* its local dictionary, in insertion order
  pub_before,             \* the snapshot file when the call began
  event,                  \* what the latest step of a publication or read did
  read_result,            \* rows returned by the latest read
  \* IncidentManager: one write of incident_tracking.csv, step by step
  tracking_pc,            \* "closed" or "open"
  tracking_target,        \* the addresses being written
  tracking_before,        \* the file when the write began
  tracking_read,          \* addresses returned by the latest read
  \* MultiPingService and its loop threads
  running,                \* self.running
  started,                \* number of loop threads started so far
  loop_pc,                \* thread -> position in _monitoring_loop
  cycle_devices,          \* thread -> addresses of the devices of its cycle
  cycle_results,          \* thread -> results of its cycle
  steps,                  \* thread -> steps its current cycle has completed
  stop_pending,           \* thread -> stop() was called while it was alive
  rebuild_status,         \* HTTP status of the latest rebuild request, or 0
  svc_event,              \* what the latest step of the service did
  \* TimeoutTracker: concurrent callers of update_timeout_tracking
  _update_tracking_lock,  \* the caller holding the lock, or 0
  upd_pc,                 \* caller -> "idle" or "locked" (inside the with)
  upd_batch,              \* caller -> its ping_results
  upd_read,               \* caller -> what it read from the two files
  \* PingExecutor: one call of ping_devices_concurrent
  probe_devices,          \* the devices argument (addresses)
  probe_outcomes,         \* what the probe of each device met
  probe_results,          \* the list returned
  probe_system_calls,     \* devices for which the system ping was invoked
  probe_event,            \* how the call ended
  \* DatabaseMonitor and the inventory table it watches
  inventory,              \* rows of inventaris joined with jenis_barangs
  device_cache_signature, \* device_cache['signature']
  last_device_check,      \* time of the latest check that was not skipped
  monitor_now,            \* time.time()
  check_result,           \* what the latest check_database_changes did
  \* the latest request to a view
  view,                   \* the route function
  view_arg,               \* the requested limit, hours or days
  view_effective,         \* the local limit, hours or days the handler uses
  view_rows,              \* rows in the snapshot file at the request
  view_count,             \* rows in the answer
  view_status             \* HTTP status of the answer

tracker_vars == <<whatsapp_threshold, timeout_csv, alerted_list_csv,
                  incident_tracking_csv, now, op, ping_results,
                  devices_to_alert, alert_delivery, recovery_sent,
                  created_incidents, analytics_appended, alert_attempts,
                  alert_delivered, incident_rows, streak>>

snapshot_vars == <<csv_dir, pub_pc, pub_args, existing_data, pub_before,
                   event, read_result>>

artefact_vars == <<tracking_pc, tracking_target, tracking_before,
                   tracking_read>>

service_vars == <<running, started, loop_pc, cycle_devices, cycle_results,
                  steps, stop_pending, rebuild_status, svc_event>>

lock_vars == <<_update_tracking_lock, upd_pc, upd_batch, upd_read>>

prober_vars == <<probe_devices, probe_outcomes, probe_results,
                 probe_system_calls, probe_event>>

monitor_vars == <<inventory, device_cache_signature, last_device_check,
                  monitor_now, check_result>>

view_vars == <<view, view_arg, view_effective, view_rows, view_count,
               view_status>>

rest_vars == <<lock_vars, prober_vars, monitor_vars, view_vars>>

vars == <<tracker_vars, snapshot_vars, artefact_vars, service_vars,
          rest_vars>>

(* ------------------------ dictionaries as rows ------------------------ *)
Keys(td) == {td[i].ip_address : i \in 1..Len(td)}

Get(td, ip) == td[CHOOSE i \in 1..Len(td) : td[i].ip_address = ip]

Del(td, ip) == SelectSeq(td, LAMBDA r : r.ip_address # ip)

Put(td, row) ==
  IF row.ip_address \in Keys(td)
  THEN [i \in 1..Len(td) |->
          IF td[i].ip_address = row.ip_address THEN row ELSE td[i]]
  ELSE Append(td, row)

Digits(n) == IF n < 10 THEN 1 ELSE 2

RowBytes(row) ==
  Len(row.ip_address) + Len(row.hostname) + Digits(row.consecutive_timeouts)
  + 3 * TimestampBytes + SeparatorBytes

RECURSIVE FileSize(_)
FileSize(rows) ==
  IF rows = <<>> THEN HeaderBytes
  ELSE RowBytes(Head(rows)) + FileSize(Tail(rows))

InsertDesc(s, r) ==
  LET k == Cardinality({i \in 1..Len(s) :
                          s[i].consecutive_timeouts >= r.consecutive_timeouts})
  IN SubSeq(s, 1, k) \o <<r>> \o SubSeq(s, k + 1, Len(s))

RECURSIVE SortDesc(_)
SortDesc(s) ==
  IF s = <<>> THEN <<>>
  ELSE InsertDesc(SortDesc(SubSeq(s, 1, Len(s) - 1)), s[Len(s)])

(* ------------------------------ inputs -------------------------------- *)
Results == [ip_address : Addrs, hostname : Hostnames, ping_success : BOOLEAN]

RECURSIVE SeqsUpTo(_, _)
SeqsUpTo(S, n) ==
  IF n = 0 THEN {<<>>}
  ELSE LET shorter == SeqsUpTo(S, n - 1)
       IN shorter \cup {Append(s, x) : s \in {t \in shorter : Len(t) = n - 1},
                                        x \in S}

Batches == SeqsUpTo(Results, MaxBatch)

(* First result of the batch for an address: "ok", "fail", or "none". *)
Observed(batch, ip) ==
  LET idx == {i \in 1..Len(batch) : batch[i].ip_address = ip}
  IN IF idx = {} THEN "none"
     ELSE LET first == CHOOSE i \in idx : \A j \in idx : i <= j
          IN IF batch[first].ping_success THEN "ok" ELSE "fail"

(* ------------------------- TimeoutTracker ----------------------------- *)
(* Mutant: the read yields nothing, as in its error path. *)
_read_timeout_data_lost == <<>>

_read_timeout_data == timeout_csv

_read_alerted_list == alerted_list_csv

(* Mutant: the alerted list is not consulted. *)
_should_send_whatsapp_alert_repeat(ip_address, consecutive_timeouts, alerted_data) ==
  /\ whatsapp_enabled
  /\ consecutive_timeouts >= whatsapp_threshold

(* Mutant: the threshold must be exceeded, not reached. *)
_should_send_whatsapp_alert_late(ip_address, consecutive_timeouts, alerted_data) ==
  /\ whatsapp_enabled
  /\ consecutive_timeouts > whatsapp_threshold
  /\ ip_address \notin alerted_data

_should_send_whatsapp_alert(ip_address, consecutive_timeouts, alerted_data) ==
  /\ whatsapp_enabled
  /\ consecutive_timeouts >= whatsapp_threshold
  /\ ip_address \notin alerted_data

(* Mutant: every alerted device gets a recovery notification. *)
RecoveryNotice_any_count(was_alerted, consecutive_timeouts) == was_alerted

(* Whether a recovering device gets a recovery notification. *)
RecoveryNotice(was_alerted, consecutive_timeouts) ==
  was_alerted /\ consecutive_timeouts >= whatsapp_threshold

(* Mutant: a repeated address is processed again. *)
AlreadyProcessed_never(ip_address, processed_ips) == FALSE

(* if ip_address in processed_ips: log a warning and continue *)
AlreadyProcessed(ip_address, processed_ips) == ip_address \in processed_ips

(* Mutant: the entry is rebuilt from the result, as a new entry is. *)
Incremented_rebuilt(entry, result, current_time) ==
  [entry EXCEPT !.consecutive_timeouts = @ + 1,
                !.hostname = result.hostname,
                !.first_timeout = current_time,
                !.last_timeout = current_time,
                !.last_updated = current_time]

(* The entry of an address that was tracked and fails again. *)
Incremented(entry, result, current_time) ==
  [entry EXCEPT !.consecutive_timeouts = @ + 1,
                !.last_timeout = current_time,
                !.last_updated = current_time]

(* One iteration of the second pass over ping_results. *)
ProcessResult(result, current_time, st) ==
  LET ip == result.ip_address
      td == st.timeout_data
  IN IF AlreadyProcessed(ip, st.processed_ips) THEN st
     ELSE IF result.ping_success
     THEN IF ip \in Keys(td)
          THEN LET was_alerted == ip \in st.alerted_data
                   count == Get(td, ip).consecutive_timeouts
               IN [st EXCEPT
                     !.processed_ips = @ \cup {ip},
                     !.recovery_sent =
                        IF RecoveryNotice(was_alerted, count)
                        THEN @ \cup {ip} ELSE @,
                     !.alerted_data = @ \ {ip},
                     !.recovered_ips = Append(@, ip),
                     !.timeout_data = Del(td, ip)]
          ELSE [st EXCEPT !.processed_ips = @ \cup {ip}]
     ELSE IF ip \in Keys(td)
          THEN LET new_count == Get(td, ip).consecutive_timeouts + 1
                   row == Incremented(Get(td, ip), result, current_time)
               IN [st EXCEPT
                     !.processed_ips = @ \cup {ip},
                     !.timeout_data = Put(td, row),
                     !.devices_to_alert =
                        IF _should_send_whatsapp_alert(ip, new_count,
                                                       st.alerted_data)
                        THEN Append(@, row) ELSE @]
          ELSE [st EXCEPT
                  !.processed_ips = @ \cup {ip},
                  !.timeout_data =
                     Append(td, [ip_address |-> ip,
                                 hostname |-> result.hostname,
                                 consecutive_timeouts |-> 1,
                                 first_timeout |-> current_time,
                                 last_timeout |-> current_time,
                                 last_updated |-> current_time])]

RECURSIVE ProcessResults(_, _, _)
ProcessResults(results, current_time, st) ==
  IF results = <<>> THEN st
  ELSE ProcessResults(Tail(results), current_time,
                      ProcessResult(Head(results), current_time, st))

(* Mutant: an empty dictionary is written over any file. *)
_write_timeout_data_unguarded(file, timeout_data) == SortDesc(timeout_data)

(* Mutant: the rows are written in the reverse of the order read. *)
_write_timeout_data_reversed(file, timeout_data) ==
  IF timeout_data = <<>> /\ FileSize(file) > GuardBytes
  THEN file
  ELSE [i \in 1..Len(timeout_data) |->
          timeout_data[Len(timeout_data) + 1 - i]]

(* The file after _write_timeout_data(timeout_data). *)
_write_timeout_data(file, timeout_data) ==
  IF timeout_data = <<>> /\ FileSize(file) > GuardBytes
  THEN file
  ELSE SortDesc(timeout_data)

_write_alerted_list(alerted_data) == alerted_data

(* ------------------------- IncidentManager ---------------------------- *)
_write_incident_tracking(file, incident_data, outcome) ==
  CASE outcome = "ok"           -> incident_data
    [] outcome = "open_failed"  -> file
    [] outcome = "write_failed" -> {}

(* incident_tracking.csv after cleanup_resolved_incidents(recovered_ips). *)
cleanup_resolved_incidents(file, recovered_ips, outcome) ==
  IF recovered_ips \cap file # {}
  THEN _write_incident_tracking(file, file \ recovered_ips, outcome)
  ELSE file

(* Addresses for which check_and_create_incidents attempts an insert. *)
IncidentsDue(timeout_data, incident_tracking, current_time) ==
  {ip \in Keys(timeout_data) :
     /\ ip \notin incident_tracking
     /\ current_time - Get(timeout_data, ip).first_timeout
          >= incident_threshold_minutes}

(* Mutant: the devices are recorded whether or not the alert was delivered. *)
AlertedAfterDelivery_always(alerted_data, devices, delivered) ==
  alerted_data \cup Keys(devices)

(* In-memory alerted_data after the batch alert was attempted. *)
AlertedAfterDelivery(alerted_data, devices, delivered) ==
  IF devices # <<>> /\ delivered
  THEN alerted_data \cup Keys(devices)
  ELSE alerted_data

(* ------------------------- TimeoutAnalytics --------------------------- *)
(* The analytics log of the day is opened for appending: what is in it     *)
(* stays, and the state holds the points the latest step added to it.      *)
(* record_timeout_snapshot(timeout_data) adds one point, the number of     *)
(* entries of the dictionary, unless opening or writing raises.            *)
record_timeout_snapshot(timeout_data, appended) ==
  IF appended THEN <<Len(timeout_data)>> ELSE <<>>

(* Tallies count none, one, or more than one. *)
Tally(n) == IF n = 0 THEN 1 ELSE 2

(* The body of update_timeout_tracking(ping_results), from what it read of *)
(* the two files.                                                           *)
(* The calls it makes have outcomes the handler does not control:           *)
(*   delivered - the batch alert reached the transport;                     *)
(*   inserted  - addresses whose incident row was committed;                *)
(*   w_create, w_cleanup - outcomes of the two incident-tracking writes;    *)
(*   appended  - the analytics point reached the log.                       *)
UpdateBody(batch, read_timeout_data, read_alerted_list, outcomes) ==
    LET st == ProcessResults(batch, now,
                [timeout_data     |-> read_timeout_data,
                 alerted_data     |-> read_alerted_list,
                 processed_ips    |-> {},
                 devices_to_alert |-> <<>>,
                 recovered_ips    |-> <<>>,
                 recovery_sent    |-> {}])
        timeout_data == st.timeout_data
        queue == st.devices_to_alert
        recovered == {st.recovered_ips[i] : i \in 1..Len(st.recovered_ips)}
        due == IF timeout_data # <<>>
               THEN IncidentsDue(timeout_data, incident_tracking_csv, now)
               ELSE {}
        obs(ip) == Observed(batch, ip)
        queued(ip) == ip \in Keys(queue)
    IN
    \* the counter stays within MaxOver of the threshold
    /\ \A i \in 1..Len(batch) :
         (~batch[i].ping_success
            /\ batch[i].ip_address \in Keys(read_timeout_data))
           => Get(read_timeout_data,
                  batch[i].ip_address).consecutive_timeouts
                < whatsapp_threshold + MaxOver
    /\ \E delivered \in (IF queue = <<>> THEN {FALSE} ELSE outcomes.delivery),
          created \in (IF outcomes.insert_fails THEN SUBSET due ELSE {due}) :
        LET alerted_data ==
              AlertedAfterDelivery(st.alerted_data, queue, delivered)
        IN
        \E w_create \in (IF created = {} THEN {"ok"} ELSE outcomes.write) :
          LET tracking1 ==
                IF created # {}
                THEN _write_incident_tracking(incident_tracking_csv,
                        incident_tracking_csv \cup created, w_create)
                ELSE incident_tracking_csv
          IN
          \E w_cleanup \in (IF recovered \cap tracking1 = {}
                            THEN {"ok"} ELSE outcomes.write) :
            /\ alerted_list_csv' = _write_alerted_list(alerted_data)
            /\ timeout_csv' = _write_timeout_data(timeout_csv, timeout_data)
            /\ incident_tracking_csv' =
                 cleanup_resolved_incidents(tracking1, recovered, w_cleanup)
            /\ op' = "update"
            /\ ping_results' = batch
            /\ devices_to_alert' = queue
            /\ alert_delivery' = IF queue = <<>> THEN "none"
                                 ELSE IF delivered THEN "ok" ELSE "fail"
            /\ recovery_sent' = st.recovery_sent
            /\ created_incidents' = created
            /\ \E appended \in outcomes.append :
                 analytics_appended' =
                   record_timeout_snapshot(timeout_data, appended)
            /\ alert_attempts' = [ip \in Addrs |->
                 IF obs(ip) = "ok" THEN 0
                 ELSE IF queued(ip) THEN Tally(alert_attempts[ip])
                 ELSE alert_attempts[ip]]
            /\ alert_delivered' = [ip \in Addrs |->
                 IF obs(ip) = "ok" THEN 0
                 ELSE IF queued(ip) /\ delivered
                 THEN Tally(alert_delivered[ip])
                 ELSE alert_delivered[ip]]
            /\ incident_rows' = [ip \in Addrs |->
                 LET base == IF obs(ip) = "ok" THEN 0 ELSE incident_rows[ip]
                 IN IF ip \in created THEN Tally(base) ELSE base]
            /\ streak' = [ip \in Addrs |->
                 CASE obs(ip) = "ok"   -> 0
                   [] obs(ip) = "none" -> streak[ip]
                   [] obs(ip) = "fail" ->
                        IF /\ ip \notin Keys(timeout_csv)
                           /\ ip \notin alerted_list_csv
                        THEN 1
                        ELSE IF streak[ip] > 0 THEN streak[ip] + 1 ELSE 0]
            /\ UNCHANGED <<now, whatsapp_threshold, snapshot_vars,
                           artefact_vars, service_vars, prober_vars,
                           monitor_vars, view_vars>>

(* A call that no other call overlaps: the lock is free and is free again  *)
(* when the call returns.                                                   *)
update_timeout_tracking(batches, outcomes) ==
  /\ \E batch \in batches :
       UpdateBody(batch, _read_timeout_data, _read_alerted_list, outcomes)
  /\ UNCHANGED rest_vars

(* The process stops inside update_timeout_tracking(batch) and is started  *)
(* again: the files are what the call had written by then.  The two points *)
(* are after the batch alert (nothing written yet) and after               *)
(* _write_alerted_list (timeout_tracking.csv not written yet).              *)
CrashPoints == {"alert sent", "ledger written"}

update_interrupted(batches, outcomes) ==
  \E batch \in batches, point \in CrashPoints :
    LET st == ProcessResults(batch, now,
                [timeout_data     |-> _read_timeout_data,
                 alerted_data     |-> _read_alerted_list,
                 processed_ips    |-> {},
                 devices_to_alert |-> <<>>,
                 recovered_ips    |-> <<>>,
                 recovery_sent    |-> {}])
        queue == st.devices_to_alert
        obs(ip) == Observed(batch, ip)
        queued(ip) == ip \in Keys(queue)
    IN
    /\ \A i \in 1..Len(batch) :
         (~batch[i].ping_success
            /\ batch[i].ip_address \in Keys(_read_timeout_data))
           => Get(_read_timeout_data,
                  batch[i].ip_address).consecutive_timeouts
                < whatsapp_threshold + MaxOver
    /\ \E delivered \in (IF queue = <<>> THEN {FALSE} ELSE outcomes.delivery) :
         /\ alerted_list_csv' =
              IF point = "ledger written"
              THEN _write_alerted_list(
                     AlertedAfterDelivery(st.alerted_data, queue, delivered))
              ELSE alerted_list_csv
         /\ alert_delivery' = IF queue = <<>> THEN "none"
                              ELSE IF delivered THEN "ok" ELSE "fail"
         /\ alert_attempts' = [ip \in Addrs |->
              IF obs(ip) = "ok" THEN 0
              ELSE IF queued(ip) THEN Tally(alert_attempts[ip])
              ELSE alert_attempts[ip]]
         /\ alert_delivered' = [ip \in Addrs |->
              IF obs(ip) = "ok" THEN 0
              ELSE IF queued(ip) /\ delivered
              THEN Tally(alert_delivered[ip])
              ELSE alert_delivered[ip]]
    /\ op' = "crash"
    /\ ping_results' = batch
    /\ devices_to_alert' = queue
    /\ recovery_sent' = st.recovery_sent
    /\ created_incidents' = {}
    /\ analytics_appended' = <<>>
    /\ UNCHANGED <<timeout_csv, incident_tracking_csv, now,
                   whatsapp_threshold, incident_rows, streak, snapshot_vars,
                   artefact_vars, service_vars, rest_vars>>

(* Outcomes of the external calls: every one, or none failing. *)
AnyOutcome ==
  [delivery |-> BOOLEAN, insert_fails |-> TRUE, write |-> WriteOutcomes,
   append |-> BOOLEAN]

NoFailure ==
  [delivery |-> {TRUE}, insert_fails |-> FALSE, write |-> {"ok"},
   append |-> {TRUE}]

BatchesOf(ips) ==
  {b \in Batches : \A i \in 1..Len(b) : b[i].ip_address \in ips}

Update == update_timeout_tracking(Batches, AnyOutcome)

UpdateNoFailure == update_timeout_tracking(Batches, NoFailure)

UpdateOne == update_timeout_tracking(BatchesOf({"1.1.1.1"}), AnyOutcome)

(* Batches about one device whose hostname in the inventory changes. *)
RenamedResults ==
  [ip_address : {"1.1.1.1"}, hostname : {"", "cam"}, ping_success : BOOLEAN]

UpdateInterrupted ==
  update_interrupted(BatchesOf({"1.1.1.1"}), NoFailure)

UpdateOneNoFailure ==
  update_timeout_tracking(BatchesOf({"1.1.1.1"}), NoFailure)

UpdateRenamed ==
  update_timeout_tracking(SeqsUpTo(RenamedResults, MaxBatch), NoFailure)

NoCycle ==
  /\ UNCHANGED <<whatsapp_threshold, snapshot_vars, artefact_vars,
                 service_vars, rest_vars>>
  /\ ping_results' = <<>>
  /\ devices_to_alert' = <<>>
  /\ alert_delivery' = "none"
  /\ recovery_sent' = {}
  /\ created_incidents' = {}
  /\ analytics_appended' = <<>>

(* cleanup_timeout_csv(): remove the tracking file and recreate it empty. *)
cleanup_timeout_csv ==
  /\ timeout_csv' = <<>>
  /\ streak' = [ip \in Addrs |-> 0]
  /\ op' = "reset"
  /\ NoCycle
  /\ UNCHANGED <<alerted_list_csv, incident_tracking_csv, now,
                 alert_attempts, alert_delivered, incident_rows>>

(* The wall clock advances between calls. *)
Tick ==
  /\ now < MaxTime
  /\ now' = now + 1
  /\ op' = "tick"
  /\ NoCycle
  /\ UNCHANGED <<timeout_csv, alerted_list_csv, incident_tracking_csv,
                 alert_attempts, alert_delivered, incident_rows, streak>>

(* ----------- update_timeout_tracking called from several threads ------- *)
Callers == 1..MaxCallers

(* Mutant: the body is entered without the lock. *)
LockFree_unlocked == TRUE

(* threading.Lock: acquired only when no caller holds it. *)
LockFree == _update_tracking_lock = 0

(* with self._update_tracking_lock, then the two reads that open the body. *)
UpdateAcquire(c, batches) ==
  /\ upd_pc[c] = "idle"
  /\ LockFree
  /\ \E batch \in batches :
       upd_batch' = [upd_batch EXCEPT ![c] = batch]
  /\ _update_tracking_lock' = c
  /\ upd_pc' = [upd_pc EXCEPT ![c] = "locked"]
  /\ upd_read' = [upd_read EXCEPT ![c] =
                    [timeout_data |-> _read_timeout_data,
                     alerted_data |-> _read_alerted_list]]
  /\ op' = "acquire"
  /\ UNCHANGED <<whatsapp_threshold, timeout_csv, alerted_list_csv,
                 incident_tracking_csv, now, ping_results, devices_to_alert,
                 alert_delivery, recovery_sent, created_incidents,
                 analytics_appended, alert_attempts, alert_delivered,
                 incident_rows, streak, snapshot_vars, artefact_vars,
                 service_vars, prober_vars, monitor_vars, view_vars>>

(* The rest of the body, its writes, and the end of the with block. *)
UpdateRelease(c, outcomes) ==
  /\ upd_pc[c] = "locked"
  /\ UpdateBody(upd_batch[c], upd_read[c].timeout_data,
                upd_read[c].alerted_data, outcomes)
  /\ _update_tracking_lock' =
       IF _update_tracking_lock = c THEN 0 ELSE _update_tracking_lock
  /\ upd_pc' = [upd_pc EXCEPT ![c] = "idle"]
  /\ UNCHANGED <<upd_batch, upd_read>>

(* Worker processes: each caller is the updating thread of a process of    *)
(* its own, with a TimeoutTracker and an _update_tracking_lock of its own, *)
(* so the lock it takes is free whenever it is not inside the body itself. *)
(* fcntl.flock is held inside _read_timeout_data and inside                *)
(* _write_timeout_data only: each read and each write is one step.         *)
ProcessAcquire(c, batches) ==
  /\ upd_pc[c] = "idle"
  \* the history of failing cycles stays within MaxOver of the threshold
  /\ \A ip \in Addrs : streak[ip] < whatsapp_threshold + MaxOver
  /\ \E batch \in batches :
       upd_batch' = [upd_batch EXCEPT ![c] = batch]
  /\ upd_pc' = [upd_pc EXCEPT ![c] = "locked"]
  /\ upd_read' = [upd_read EXCEPT ![c] =
                    [timeout_data |-> _read_timeout_data,
                     alerted_data |-> _read_alerted_list]]
  /\ op' = "acquire"
  /\ UNCHANGED <<_update_tracking_lock, whatsapp_threshold, timeout_csv,
                 alerted_list_csv, incident_tracking_csv, now, ping_results,
                 devices_to_alert, alert_delivery, recovery_sent,
                 created_incidents, analytics_appended, alert_attempts,
                 alert_delivered, incident_rows, streak, snapshot_vars,
                 artefact_vars, service_vars, prober_vars, monitor_vars,
                 view_vars>>

LockInit ==
  /\ _update_tracking_lock = 0
  /\ upd_pc = [c \in Callers |-> "idle"]
  /\ upd_batch = [c \in Callers |-> <<>>]
  /\ upd_read = [c \in Callers |->
                   [timeout_data |-> <<>>, alerted_data |-> {}]]

(* --------------------------- PingExecutor ----------------------------- *)
(* What a probe of one device meets: the answer of ping3.ping (a number,   *)
(* False, None, or an exception), the end of the system ping command, the  *)
(* platform and configuration, and whether the worker's future raises.     *)
RttValues == {"0.0", "12.34"}

ProbeOutcomes ==
  [ping3    : RttValues \cup {"False", "None", "raise"},
   system   : {"parsed", "unparsed", "failed", "timeout", "error"},
   fallback : BOOLEAN,
   future   : {"returned", "raised"}]

(* The dictionary built from the answer of ping3.ping. *)
Ping3Result(answer) ==
  CASE answer \in RttValues ->
         [success |-> TRUE, response_time_ms |-> answer,
          error_message |-> "None", method |-> "ping3"]
    [] answer = "False" ->
         [success |-> FALSE, response_time_ms |-> "None",
          error_message |-> "Destination host unreachable (ping3)",
          method |-> "ping3"]
    [] answer = "None" ->
         [success |-> FALSE, response_time_ms |-> "None",
          error_message |-> "No response - timeout (ping3)",
          method |-> "ping3"]
    [] answer = "raise" ->
         [success |-> FALSE, response_time_ms |-> "None",
          error_message |-> "Ping3 error", method |-> "ping3"]

_ping_via_system(ended) ==
  CASE ended = "parsed" ->
         [success |-> TRUE, response_time_ms |-> "12.34",
          error_message |-> "None", method |-> "system_ping"]
    [] ended = "unparsed" ->
         [success |-> TRUE, response_time_ms |-> "0.0",
          error_message |-> "None", method |-> "system_ping"]
    [] ended = "failed" ->
         [success |-> FALSE, response_time_ms |-> "None",
          error_message |-> "System ping failed", method |-> "system_ping"]
    [] ended = "timeout" ->
         [success |-> FALSE, response_time_ms |-> "None",
          error_message |-> "System ping timeout", method |-> "system_ping"]
    [] ended = "error" ->
         [success |-> FALSE, response_time_ms |-> "None",
          error_message |-> "System ping error", method |-> "system_ping"]

(* if self.is_linux and self.use_fallback and not ping3_result['success'] *)
SystemInvoked(ping3_result, fallback) == fallback /\ ~ping3_result.success

(* Mutant: whatever the system ping says replaces a failed ping3 result. *)
Chosen_system(ping3_result, system_result, fallback) ==
  IF fallback /\ ~ping3_result.success THEN system_result ELSE ping3_result

(* Mutant: the success of the system ping with the fields of ping3. *)
Chosen_mixed(ping3_result, system_result, fallback) ==
  IF fallback /\ ~ping3_result.success /\ system_result.success
  THEN [ping3_result EXCEPT !.success = TRUE]
  ELSE ping3_result

(* The result used: that of the system ping when ping3 failed, the        *)
(* fallback is on and the system ping succeeded.                            *)
Chosen(ping3_result, system_result, fallback) ==
  IF SystemInvoked(ping3_result, fallback) /\ system_result.success
  THEN system_result
  ELSE ping3_result

ping_single_device(ip, outcome) ==
  LET result == Chosen(Ping3Result(outcome.ping3),
                       _ping_via_system(outcome.system), outcome.fallback)
  IN [ip_address       |-> ip,
      hostname         |-> ip,
      ping_success     |-> result.success,
      response_time_ms |-> result.response_time_ms,
      error_message    |-> result.error_message,
      ping_method      |-> result.method]

(* The result built when future.result() raises. *)
error_result(ip) ==
  [ip_address       |-> ip,
   hostname         |-> ip,
   ping_success     |-> FALSE,
   response_time_ms |-> "None",
   error_message    |-> "Ping execution error",
   ping_method      |-> "None"]

(* Mutant: a probe that raises leaves no result. *)
Collected_dropped(ip, outcome) ==
  IF outcome.future = "raised" THEN <<>>
  ELSE <<ping_single_device(ip, outcome)>>

(* What the loop over as_completed appends for one future. *)
Collected(ip, outcome) ==
  IF outcome.future = "raised" THEN <<error_result(ip)>>
  ELSE <<ping_single_device(ip, outcome)>>

(* The futures complete in any order. *)
Orders(n) == {f \in [1..n -> 1..n] : \A i, j \in 1..n : f[i] = f[j] => i = j}

RECURSIVE Gather(_, _, _)
Gather(devices, outcomes, order) ==
  IF order = <<>> THEN <<>>
  ELSE Collected(devices[Head(order)], outcomes[Head(order)])
       \o Gather(devices, outcomes, Tail(order))

ping_devices_concurrent ==
  \E n \in 0..MaxBatch :
    \E devices \in [1..n -> Addrs], outcomes \in [1..n -> ProbeOutcomes],
       executor_failed \in BOOLEAN :
      /\ probe_devices' = devices
      /\ probe_outcomes' = outcomes
      /\ probe_system_calls' =
           IF executor_failed THEN {}
           ELSE {i \in 1..n :
                   /\ outcomes[i].future = "returned"
                   /\ SystemInvoked(Ping3Result(outcomes[i].ping3),
                                    outcomes[i].fallback)}
      /\ IF n = 0
         THEN probe_results' = <<>> /\ probe_event' = "no devices"
         ELSE IF executor_failed
         THEN probe_results' = <<>> /\ probe_event' = "executor failed"
         ELSE /\ \E order \in Orders(n) :
                   probe_results' = Gather(devices, outcomes, order)
              /\ probe_event' = "completed"
      /\ UNCHANGED <<tracker_vars, snapshot_vars, artefact_vars,
                     service_vars, lock_vars, monitor_vars, view_vars>>

ProberInit ==
  /\ probe_devices = <<>>
  /\ probe_outcomes = <<>>
  /\ probe_results = <<>>
  /\ probe_system_calls = {}
  /\ probe_event = "init"

(* -------------------------- DatabaseMonitor --------------------------- *)
(* The table holds at most one device row here.  ping is the flag of the   *)
(* device's kind in jenis_barangs, merk a column the signature leaves out. *)
DeviceRows ==
  [id : {1}, ip : Addrs, hostname : {"cam"}, kondisi : {"baik", "hilang"},
   merk : {"A", "B"}, ping : {1}]

Inventories == {<<>>} \cup {<<d>> : d \in DeviceRows}

(* The rows the query of the signature returns, ordered by id. *)
ActiveDevices(rows) ==
  SelectSeq(rows, LAMBDA d : d.kondisi # "hilang" /\ d.ip # "" /\ d.ping = 1)

(* The text that is hashed: id:ip:hostname:kondisi of each device.  The    *)
(* digest is taken to be as good as the text; "" is no digest of a text.   *)
SignatureOf(rows) ==
  [digest |-> TRUE,
   of |-> [i \in 1..Len(ActiveDevices(rows)) |->
             LET d == ActiveDevices(rows)[i]
             IN <<d.id, d.ip, d.hostname, d.kondisi>>]]

EmptyString == [digest |-> FALSE, of |-> <<>>]

(* get_current_device_signature(): the digest, or "" when the query fails. *)
get_current_device_signature(query_ok) ==
  IF query_ok THEN SignatureOf(inventory) ELSE EmptyString

check_database_changes ==
  /\ \E query_ok \in BOOLEAN :
       LET current_signature == get_current_device_signature(query_ok)
           last_signature == device_cache_signature
       IN IF monitor_now - last_device_check < device_check_interval
          THEN /\ check_result' = "skipped"
               /\ UNCHANGED <<device_cache_signature, last_device_check>>
          ELSE /\ last_device_check' = monitor_now
               /\ IF current_signature # last_signature
                  THEN /\ device_cache_signature' = current_signature
                       /\ check_result' = "changed"
                  ELSE /\ check_result' = "unchanged"
                       /\ UNCHANGED device_cache_signature
  /\ UNCHANGED <<inventory, monitor_now, tracker_vars, snapshot_vars,
                 artefact_vars, service_vars, lock_vars, prober_vars,
                 view_vars>>

(* Somebody edits the table. *)
InventoryEdit ==
  /\ \E rows \in Inventories \ {inventory} : inventory' = rows
  /\ check_result' = "edit"
  /\ UNCHANGED <<device_cache_signature, last_device_check, monitor_now,
                 tracker_vars, snapshot_vars, artefact_vars, service_vars,
                 lock_vars, prober_vars, view_vars>>

MonitorTick ==
  /\ monitor_now < MaxMonitorTime
  /\ monitor_now' = monitor_now + 1
  /\ check_result' = "tick"
  /\ UNCHANGED <<inventory, device_cache_signature, last_device_check,
                 tracker_vars, snapshot_vars, artefact_vars, service_vars,
                 lock_vars, prober_vars, view_vars>>

(* After __init__ and initialize_cache() on an empty table. *)
MonitorInit ==
  /\ inventory = <<>>
  /\ device_cache_signature = SignatureOf(<<>>)
  /\ last_device_check = 0
  /\ monitor_now = 0
  /\ check_result = "init"

(* --------------------------- CSVManager ------------------------------- *)
(* A file is absent, or has a header line or not, and rows.  A row is what  *)
(* csv.DictWriter writes of a result: the columns of csv_headers, each as   *)
(* its string.                                                              *)
FileNames == {"ping_results.csv", "ping_results.csv.tmp"}

csv_path == "ping_results.csv"

(* Mutant: the rows are written to the snapshot file itself. *)
tmp_path_in_place == csv_path

(* The name tempfile.mkstemp returns, in the snapshot's directory. *)
tmp_path == "ping_results.csv.tmp"

Missing == [exists |-> FALSE, header |-> FALSE, rows |-> <<>>]

Created == [exists |-> TRUE, header |-> FALSE, rows |-> <<>>]

Opened == [exists |-> TRUE, header |-> TRUE, rows |-> <<>>]

(* Mutant: the temporary file is never removed. *)
os_remove_never(dir, path) == dir

os_remove(dir, path) == [dir EXCEPT ![path] = Missing]

shutil_move(dir, src, dst) ==
  IF src = dst THEN dir
  ELSE [dir EXCEPT ![dst] = dir[src], ![src] = Missing]

CsvRow(result) ==
  [ip_address   |-> result.ip_address,
   hostname     |-> result.hostname,
   ping_success |-> IF result.ping_success THEN "True" ELSE "False"]

(* active_ips: None, or a list of addresses. *)
ActiveIps ==
  {[given |-> FALSE, ips |-> {}]} \cup [given : {TRUE}, ips : SUBSET Addrs]

(* Mutant: the addresses that left the active list are kept. *)
Prune_nothing(data, active_ips) == data

Prune(data, active_ips) ==
  IF active_ips.given
  THEN SelectSeq(data, LAMBDA r : r.ip_address \in active_ips.ips)
  ELSE data

RECURSIVE UpdateRows(_, _)
UpdateRows(data, results) ==
  IF results = <<>> THEN data
  ELSE UpdateRows(Put(data, CsvRow(Head(results))), Tail(results))

(* get_latest_ping_results_from_csv(limit); limit 0 stands for None. *)
get_latest_ping_results_from_csv(limit) ==
  LET file == csv_dir[csv_path]
  IN IF ~file.exists THEN <<>>
     ELSE IF limit # 0 /\ limit < Len(file.rows)
          THEN SubSeq(file.rows, 1, limit)
          ELSE file.rows

(* write_ping_results_to_csv(results, active_ips), statement by statement. *)
(* mkstemp creates the temporary file, or raises before the try block.     *)
(* It returns a name that is not in use: tmp_path stands for the name of   *)
(* the current call, and a file left by an earlier call has another name.  *)
WriteBegin(batches) ==
  /\ pub_pc = "idle"
  /\ \E results \in batches, active_ips \in ActiveIps, created \in BOOLEAN :
       /\ pub_args' = [results |-> results, active_ips |-> active_ips]
       /\ pub_before' = csv_dir[csv_path]
       /\ existing_data' = <<>>
       /\ IF created
          THEN /\ csv_dir' = [csv_dir EXCEPT ![tmp_path] = Created]
               /\ pub_pc' = "created"
               /\ event' = "begin"
          ELSE /\ csv_dir' = [csv_dir EXCEPT ![tmp_path] =
                                IF tmp_path = csv_path THEN @ ELSE Missing]
               /\ pub_pc' = "idle"
               /\ event' = "failed"
  /\ read_result' = <<>>
  /\ UNCHANGED <<tracker_vars, artefact_vars, service_vars,
                 rest_vars>>

(* Read the old file (a read that breaks off keeps the rows read so far),   *)
(* prune, and take over the results in their order.                         *)
WriteMerge ==
  /\ pub_pc = "created"
  /\ LET file == csv_dir[csv_path]
         old == IF file.exists /\ (file.header \/ file.rows # <<>>)
                THEN file.rows ELSE <<>>
     IN \E n \in 0..Len(old) :
          existing_data' =
            UpdateRows(Prune(SubSeq(old, 1, n), pub_args.active_ips),
                       pub_args.results)
  /\ pub_pc' = "merged"
  /\ event' = "merge"
  /\ read_result' = <<>>
  /\ UNCHANGED <<csv_dir, pub_args, pub_before, tracker_vars,
                 artefact_vars, service_vars,
                 rest_vars>>

WriteHeader ==
  /\ pub_pc = "merged"
  /\ csv_dir' = [csv_dir EXCEPT ![tmp_path] = Opened]
  /\ pub_pc' = "writing"
  /\ event' = "header"
  /\ read_result' = <<>>
  /\ UNCHANGED <<pub_args, existing_data, pub_before, tracker_vars,
                 artefact_vars, service_vars,
                 rest_vars>>

WriteRow ==
  /\ pub_pc = "writing"
  /\ LET written == Len(csv_dir[tmp_path].rows)
     IN /\ written < Len(existing_data)
        /\ csv_dir' = [csv_dir EXCEPT ![tmp_path].rows =
                          Append(@, existing_data[written + 1])]
  /\ event' = "row"
  /\ read_result' = <<>>
  /\ UNCHANGED <<pub_pc, pub_args, existing_data, pub_before, tracker_vars,
                 artefact_vars, service_vars,
                 rest_vars>>

(* flush, fsync and close; then the move and the finally clause. *)
WriteMove ==
  /\ pub_pc = "writing"
  /\ Len(csv_dir[tmp_path].rows) = Len(existing_data)
  /\ csv_dir' = LET moved == shutil_move(csv_dir, tmp_path, csv_path)
                IN IF moved[tmp_path].exists
                   THEN os_remove(moved, tmp_path) ELSE moved
  /\ pub_pc' = "idle"
  /\ event' = "published"
  /\ read_result' = <<>>
  /\ UNCHANGED <<pub_args, existing_data, pub_before, tracker_vars,
                 artefact_vars, service_vars,
                 rest_vars>>

(* Any statement of the try block raises: the handler removes the          *)
(* temporary file, ignoring a removal that fails, and raises again.         *)
WriteFail ==
  /\ pub_pc \in {"created", "merged", "writing"}
  /\ \E removed \in BOOLEAN :
       IF csv_dir[tmp_path].exists /\ removed
       THEN /\ csv_dir' = os_remove(csv_dir, tmp_path)
            /\ event' = "failed"
       ELSE /\ UNCHANGED csv_dir
            /\ event' = IF csv_dir[tmp_path].exists
                        THEN "failed, temporary file left" ELSE "failed"
  /\ pub_pc' = "idle"
  /\ read_result' = <<>>
  /\ UNCHANGED <<pub_args, existing_data, pub_before, tracker_vars,
                 artefact_vars, service_vars,
                 rest_vars>>

(* A reader opens and reads the snapshot at any moment. *)
ReadSnapshot ==
  /\ \E limit \in 0..1 : read_result' = get_latest_ping_results_from_csv(limit)
  /\ event' = "read"
  /\ UNCHANGED <<csv_dir, pub_pc, pub_args, existing_data, pub_before,
                 tracker_vars, artefact_vars, service_vars,
                 rest_vars>>

write_ping_results_to_csv(batches) ==
  \/ WriteBegin(batches)
  \/ WriteMerge \/ WriteHeader \/ WriteRow \/ WriteMove \/ WriteFail

SnapshotInit ==
  /\ csv_dir = [f \in FileNames |-> Missing]
  /\ pub_pc = "idle"
  /\ pub_args = [results |-> <<>>, active_ips |-> [given |-> FALSE, ips |-> {}]]
  /\ existing_data = <<>>
  /\ pub_before = Missing
  /\ event = "init"
  /\ read_result = <<>>

(* ----------- _write_incident_tracking, statement by statement --------- *)
tracker_rest == <<whatsapp_threshold, timeout_csv, alerted_list_csv, now, op,
                  ping_results, devices_to_alert, alert_delivery,
                  recovery_sent, created_incidents, analytics_appended,
                  alert_attempts, alert_delivered, incident_rows, streak>>

(* open(incident_tracking_csv, 'w') truncates the file itself, or raises. *)
TrackingOpen ==
  /\ tracking_pc = "closed"
  /\ \E incident_data \in SUBSET Addrs, opened \in BOOLEAN :
       /\ tracking_target' = incident_data
       /\ tracking_before' = incident_tracking_csv
       /\ IF opened
          THEN incident_tracking_csv' = {} /\ tracking_pc' = "open"
          ELSE UNCHANGED <<incident_tracking_csv, tracking_pc>>
  /\ tracking_read' = {}
  /\ UNCHANGED <<tracker_rest, snapshot_vars, service_vars,
                 rest_vars>>

(* A row written so far reaches the file. *)
TrackingFlush ==
  /\ tracking_pc = "open"
  /\ \E ip \in tracking_target \ incident_tracking_csv :
       incident_tracking_csv' = incident_tracking_csv \cup {ip}
  /\ tracking_read' = {}
  /\ UNCHANGED <<tracking_pc, tracking_target, tracking_before, tracker_rest,
                 snapshot_vars, service_vars,
                 rest_vars>>

(* The with block ends: after the last row, or by an exception. *)
TrackingClose ==
  /\ tracking_pc = "open"
  /\ \E complete \in BOOLEAN :
       incident_tracking_csv' =
         IF complete THEN tracking_target ELSE incident_tracking_csv
  /\ tracking_pc' = "closed"
  /\ tracking_read' = {}
  /\ UNCHANGED <<tracking_target, tracking_before, tracker_rest,
                 snapshot_vars, service_vars,
                 rest_vars>>

(* _read_incident_tracking() by another reader, at any moment. *)
ReadTracking ==
  /\ tracking_read' = incident_tracking_csv
  /\ UNCHANGED <<tracking_pc, tracking_target, tracking_before, tracker_vars,
                 snapshot_vars, service_vars,
                 rest_vars>>

ArtefactInit ==
  /\ tracking_pc = "closed"
  /\ tracking_target = {}
  /\ tracking_before = {}
  /\ tracking_read = {}

(* ------------------------- MultiPingService --------------------------- *)
Threads == 1..MaxThreads

(* The attributes __init__ gives the service. *)
ServiceAttributes ==
  {"config", "running", "thread", "database_monitor", "csv_manager",
   "ping_executor"}

(* Positions inside perform_ping_cycle. *)
CyclePcs == {"devices", "probe", "publish"}

Alive(t) == loop_pc[t] \notin {"none", "exited"}

InCycle == \E t \in Threads : loop_pc[t] \in CyclePcs

(* ping_devices_concurrent: one result per device, in completion order. *)
RECURSIVE ResultsFor(_)
ResultsFor(ips) ==
  IF ips = {} THEN {<<>>}
  ELSE UNION {{<<r>> \o rest : r \in {x \in Results : x.ip_address = ip},
                               rest \in ResultsFor(ips \ {ip})} : ip \in ips}

service_frame == <<rest_vars, tracker_vars, artefact_vars, pub_pc, pub_args,
                   existing_data, pub_before, event, read_result>>

(* start(): nothing when already running, else a new loop thread. *)
start ==
  /\ ~running => started < MaxThreads
  /\ IF running
     THEN UNCHANGED <<running, started, loop_pc>>
     ELSE /\ running' = TRUE
          /\ started' = started + 1
          /\ loop_pc' = [loop_pc EXCEPT ![started + 1] = "while"]
  /\ svc_event' = "start"
  /\ UNCHANGED <<cycle_devices, cycle_results, steps, stop_pending,
                 rebuild_status, csv_dir, service_frame>>

(* stop(): clears the flag and waits for the thread for at most ten        *)
(* seconds; it returns whether or not the thread has ended.                 *)
stop ==
  /\ IF ~running
     THEN UNCHANGED <<running, stop_pending>>
     ELSE /\ running' = FALSE
          /\ stop_pending' = [t \in Threads |-> stop_pending[t] \/ Alive(t)]
  /\ svc_event' = "stop"
  /\ UNCHANGED <<started, loop_pc, cycle_devices, cycle_results, steps,
                 rebuild_status, csv_dir, service_frame>>

(* POST /ping/csv/rebuild: the route reads service._ping_in_progress; the  *)
(* AttributeError of a missing attribute is caught and answered with 500.  *)
(* Past that test the route calls perform_ping_cycle(force=True), which    *)
(* takes no argument: the TypeError is answered with 500 as well.           *)
rebuild_today_csv ==
  /\ rebuild_status' =
       IF "_ping_in_progress" \notin ServiceAttributes THEN 500
       ELSE IF InCycle THEN 409 ELSE 500
  /\ svc_event' = "rebuild"
  /\ UNCHANGED <<running, started, loop_pc, cycle_devices, cycle_results,
                 steps, stop_pending, csv_dir, service_frame>>

(* while self.running *)
LoopWhile(t) ==
  /\ loop_pc[t] = "while"
  /\ IF running
     THEN /\ loop_pc' = [loop_pc EXCEPT ![t] = "reconcile"]
          /\ svc_event' = "cycle start"
     ELSE /\ loop_pc' = [loop_pc EXCEPT ![t] = "exited"]
          /\ svc_event' = "loop exit"
  /\ UNCHANGED <<running, started, cycle_devices, cycle_results, steps,
                 stop_pending, rebuild_status, csv_dir, service_frame>>

(* The iteration begins: check_database_changes and reload_device_list;    *)
(* what they raise reaches the handler of the loop.  steps is the record   *)
(* of what the iteration has done.                                          *)
Reconcile(t) ==
  /\ loop_pc[t] = "reconcile"
  /\ \E raised \in BOOLEAN :
       IF raised
       THEN /\ loop_pc' = [loop_pc EXCEPT ![t] = "handler"]
            /\ steps' = [steps EXCEPT ![t] = <<>>]
       ELSE /\ loop_pc' = [loop_pc EXCEPT ![t] = "devices"]
            /\ steps' = [steps EXCEPT ![t] = <<"reconcile">>]
  /\ svc_event' = "reconcile"
  /\ UNCHANGED <<running, started, cycle_devices, cycle_results,
                 stop_pending, rebuild_status, csv_dir, service_frame>>

(* Mutant: the cycle goes on to the probe without a device. *)
AfterDevices_probe(devices) == "probe"

(* if not devices: log a warning and return *)
AfterDevices(devices) == IF devices = {} THEN "sleep" ELSE "probe"

(* perform_ping_cycle: get_devices_from_database; no device, or an         *)
(* exception, ends the cycle.                                               *)
GetDevices(t) ==
  /\ loop_pc[t] = "devices"
  /\ \E devices \in SUBSET Addrs :
       /\ cycle_devices' = [cycle_devices EXCEPT ![t] = devices]
       /\ loop_pc' = [loop_pc EXCEPT ![t] = AfterDevices(devices)]
  /\ svc_event' = "devices"
  /\ UNCHANGED <<running, started, cycle_results, steps, stop_pending,
                 rebuild_status, csv_dir, service_frame>>

(* ping_devices_concurrent returns the results, or none after an error. *)
Probe(t) ==
  /\ loop_pc[t] = "probe"
  /\ \E results \in ResultsFor(cycle_devices[t]) \cup {<<>>} :
       /\ cycle_results' = [cycle_results EXCEPT ![t] = results]
       /\ loop_pc' = [loop_pc EXCEPT ![t] =
                        IF results = <<>> THEN "sleep" ELSE "publish"]
       /\ cycle_devices' = [cycle_devices EXCEPT ![t] =
                              IF results = <<>> THEN {} ELSE @]
  /\ steps' = [steps EXCEPT ![t] = Append(@, "probe")]
  /\ svc_event' = "probe"
  /\ UNCHANGED <<running, started, stop_pending, rebuild_status, csv_dir,
                 service_frame>>

(* write_ping_results_to_csv(results, active_ips) as a whole; what it      *)
(* raises is caught and logged by perform_ping_cycle, which then returns.  *)
Publish(t) ==
  /\ loop_pc[t] = "publish"
  /\ \E written \in BOOLEAN :
       IF written
       THEN /\ csv_dir' =
                 [csv_dir EXCEPT ![csv_path] =
                    [Opened EXCEPT !.rows =
                       UpdateRows(Prune(csv_dir[csv_path].rows,
                                        [given |-> TRUE,
                                         ips |-> cycle_devices[t]]),
                                  cycle_results[t])]]
            /\ steps' = [steps EXCEPT ![t] = Append(@, "publish")]
       ELSE UNCHANGED <<csv_dir, steps>>
  /\ loop_pc' = [loop_pc EXCEPT ![t] = "sleep"]
  /\ cycle_devices' = [cycle_devices EXCEPT ![t] = {}]
  /\ cycle_results' = [cycle_results EXCEPT ![t] = <<>>]
  /\ svc_event' = "publish"
  /\ UNCHANGED <<running, started, stop_pending, rebuild_status,
                 service_frame>>

(* time.sleep for the rest of the interval *)
Sleep(t) ==
  /\ loop_pc[t] = "sleep"
  /\ loop_pc' = [loop_pc EXCEPT ![t] = "while"]
  /\ svc_event' = "sleep"
  /\ UNCHANGED <<running, started, cycle_devices, cycle_results, steps,
                 stop_pending, rebuild_status, csv_dir, service_frame>>

(* Mutant: the exception leaves the loop. *)
AfterHandler_exit == "exited"

(* except Exception in the loop: log, sleep one interval, go on. *)
AfterHandler == "while"

Handler(t) ==
  /\ loop_pc[t] = "handler"
  /\ loop_pc' = [loop_pc EXCEPT ![t] = AfterHandler]
  /\ steps' = [steps EXCEPT ![t] = Append(@, "handler")]
  /\ svc_event' = "handler"
  /\ UNCHANGED <<running, started, cycle_devices, cycle_results,
                 stop_pending, rebuild_status, csv_dir, service_frame>>

_monitoring_loop(t) ==
  \/ LoopWhile(t) \/ Reconcile(t) \/ GetDevices(t) \/ Probe(t)
  \/ Publish(t) \/ Sleep(t) \/ Handler(t)

ServiceInit ==
  /\ running = FALSE
  /\ started = 0
  /\ loop_pc = [t \in Threads |-> "none"]
  /\ cycle_devices = [t \in Threads |-> {}]
  /\ cycle_results = [t \in Threads |-> <<>>]
  /\ steps = [t \in Threads |-> <<>>]
  /\ stop_pending = [t \in Threads |-> FALSE]
  /\ rebuild_status = 0
  /\ svc_event = "init"

(* ------------------------------ views --------------------------------- *)
LimitCap == 1000   \* /ping/latest
HoursCap == 168    \* /ping/timeout/analytics/chart
DaysCap  == 30     \* /ping/timeout/analytics/multi-day

(* Requested values and file sizes around the caps and around zero. *)
Limits    == (-3..3) \cup (998..1002)
RowCounts == (0..3) \cup (999..1002)
Hours     == {-1, 0, 1, 24, 167, 168, 169, 1000}
Days      == {-1, 0, 1, 7, 29, 30, 31, 365}

Min(a, b) == IF a <= b THEN a ELSE b

(* len(results[:limit]) for a list of n rows. *)
SliceLen(n, limit) ==
  IF limit >= 0 THEN Min(n, limit)
  ELSE IF n + limit > 0 THEN n + limit ELSE 0

(* Rows get_latest_ping_results_from_csv(limit) returns of a file of n     *)
(* rows: `if limit:` takes 0 like None and returns them all.                *)
LatestCount(n, limit) == IF limit # 0 THEN SliceLen(n, limit) ELSE n

view_frame == <<tracker_vars, snapshot_vars, artefact_vars, service_vars,
                lock_vars, prober_vars, monitor_vars>>

(* GET /ping/latest?limit= *)
get_latest_ping_results ==
  /\ \E limit \in Limits, n \in RowCounts :
       /\ view_arg' = limit
       /\ view_effective' = Min(limit, LimitCap)
       /\ view_rows' = n
       /\ view_count' = LatestCount(n, Min(limit, LimitCap))
  /\ view' = "get_latest_ping_results"
  /\ view_status' = 200
  /\ UNCHANGED view_frame

(* The analytics views ask for service.timeout_tracker; the AttributeError *)
(* of a missing attribute is caught and answered with 500.                  *)
AnalyticsStatus ==
  IF "timeout_tracker" \in ServiceAttributes THEN 200 ELSE 500

(* GET /ping/timeout/analytics/chart?hours= *)
get_timeout_analytics_chart ==
  /\ \E hours \in Hours :
       /\ view_arg' = hours
       /\ view_effective' = Min(hours, HoursCap)
  /\ view' = "get_timeout_analytics_chart"
  /\ view_status' = AnalyticsStatus
  /\ UNCHANGED <<view_rows, view_count, view_frame>>

(* GET /ping/timeout/analytics/multi-day?days= *)
get_timeout_analytics_multi_day ==
  /\ \E days \in Days :
       /\ view_arg' = days
       /\ view_effective' = Min(days, DaysCap)
  /\ view' = "get_timeout_analytics_multi_day"
  /\ view_status' = AnalyticsStatus
  /\ UNCHANGED <<view_rows, view_count, view_frame>>

(* GET /ping/timeout/analytics/summary?hours=: hours is passed on as it    *)
(* was requested.                                                           *)
get_timeout_analytics_summary ==
  /\ \E hours \in Hours :
       /\ view_arg' = hours
       /\ view_effective' = hours
  /\ view' = "get_timeout_analytics_summary"
  /\ view_status' = AnalyticsStatus
  /\ UNCHANGED <<view_rows, view_count, view_frame>>

ViewInit ==
  /\ view = "none"
  /\ view_arg = 0
  /\ view_effective = 0
  /\ view_rows = 0
  /\ view_count = 0
  /\ view_status = 0

InitWith(thresholds) ==
  /\ ServiceInit
  /\ ViewInit
  /\ MonitorInit
  /\ ProberInit
  /\ LockInit
  /\ ArtefactInit
  /\ SnapshotInit
  /\ whatsapp_threshold \in thresholds
  /\ timeout_csv = <<>>
  /\ alerted_list_csv = {}
  /\ incident_tracking_csv = {}
  /\ now = 0
  /\ op = "init"
  /\ ping_results = <<>>
  /\ devices_to_alert = <<>>
  /\ alert_delivery = "none"
  /\ recovery_sent = {}
  /\ created_incidents = {}
  /\ analytics_appended = <<>>
  /\ alert_attempts = [ip \in Addrs |-> 0]
  /\ alert_delivered = [ip \in Addrs |-> 0]
  /\ incident_rows = [ip \in Addrs |-> 0]
  /\ streak = [ip \in Addrs |-> 0]

Init == InitWith(Thresholds)

InitTwo == InitWith({2})

(* The complete system. *)
Next == Update \/ cleanup_timeout_csv \/ Tick

Spec == Init /\ [][Next]_vars

(* Two devices, every outcome of the external calls, the clock standing    *)
(* still, so that no incident falls due.                                   *)
NextAlerts == Update \/ cleanup_timeout_csv

SpecAlerts == InitTwo /\ [][NextAlerts]_vars

(* Two devices and a running clock, the external calls succeeding. *)
NextClock == UpdateNoFailure \/ Tick

SpecClock == InitTwo /\ [][NextClock]_vars

(* One device, a running clock, every outcome of the external calls. *)
NextIncidents == UpdateOne \/ cleanup_timeout_csv \/ Tick

SpecIncidents == InitTwo /\ [][NextIncidents]_vars

(* One device under each configured threshold, the clock standing still. *)
NextThreshold == UpdateOne \/ cleanup_timeout_csv

SpecThreshold == Init /\ [][NextThreshold]_vars

(* The snapshot: one publisher, and a reader at any moment. *)
NextSnapshot == write_ping_results_to_csv(Batches) \/ ReadSnapshot

SpecSnapshot == InitTwo /\ [][NextSnapshot]_vars

(* The files and their readers: the snapshot of one device, and the        *)
(* incident tracking file.                                                  *)
NextArtefacts ==
  \/ write_ping_results_to_csv(BatchesOf({"1.1.1.1"}))
  \/ ReadSnapshot
  \/ TrackingOpen \/ TrackingFlush \/ TrackingClose
  \/ ReadTracking

SpecArtefacts == InitTwo /\ [][NextArtefacts]_vars

(* Requests to the views. *)
NextViews ==
  \/ get_latest_ping_results
  \/ get_timeout_analytics_chart
  \/ get_timeout_analytics_multi_day
  \/ get_timeout_analytics_summary

SpecViews == InitTwo /\ [][NextViews]_vars

(* The monitor, the table and the clock. *)
NextMonitor == check_database_changes \/ InventoryEdit \/ MonitorTick

SpecMonitor == InitTwo /\ [][NextMonitor]_vars

(* One call of the prober; a call depends on no earlier call. *)
NextProbe == probe_event = "init" /\ ping_devices_concurrent

SpecProbe == InitTwo /\ [][NextProbe]_vars

(* One device whose inventory row is edited while it is tracked. *)
NextEpisode == UpdateRenamed \/ Tick

SpecEpisode == InitTwo /\ [][NextEpisode]_vars

(* Threads of one process calling update_timeout_tracking on one tracker.  *)
NextLocked ==
  \E c \in Callers :
    \/ UpdateAcquire(c, BatchesOf({"1.1.1.1"}))
    \/ UpdateRelease(c, NoFailure)

SpecLocked == InitTwo /\ [][NextLocked]_vars

(* Updates about one device with no failing call, and process stops. *)
NextCrash == UpdateOneNoFailure \/ UpdateInterrupted

SpecCrash == InitTwo /\ [][NextCrash]_vars

(* Updates with no failing call, one after each cycle of the monitor for   *)
(* as long as it runs.                                                      *)
NextStale == UpdateNoFailure

SpecStale == InitTwo /\ [][NextStale]_vars /\ WF_vars(NextStale)

(* Worker processes updating the same files. *)
NextWorkers ==
  \E c \in Callers :
    \/ ProcessAcquire(c, BatchesOf({"1.1.1.1"}))
    \/ UpdateRelease(c, NoFailure)

SpecWorkers == InitTwo /\ [][NextWorkers]_vars

(* The reset request arrives in another thread: cleanup_timeout_csv takes  *)
(* neither _update_tracking_lock nor _timeout_file_lock.                    *)
NextReset ==
  \/ \E c \in Callers :
       \/ UpdateAcquire(c, BatchesOf({"1.1.1.1"}))
       \/ UpdateRelease(c, NoFailure)
  \/ cleanup_timeout_csv

SpecReset == InitTwo /\ [][NextReset]_vars

(* The service: its loop threads, and the requests that start and stop it  *)
(* and ask for a rebuild.  A started thread keeps being scheduled.          *)
NextService ==
  \/ start \/ stop \/ rebuild_today_csv
  \/ \E t \in Threads : _monitoring_loop(t)

SpecService == InitTwo /\ [][NextService]_vars

SpecServiceFair ==
  SpecService /\ \A t \in Threads : WF_vars(_monitoring_loop(t))

(* ============================== claims ================================ *)
Tracked == Keys(timeout_csv)

Count(file, ip) == Get(file, ip).consecutive_timeouts

ContainsFail(batch, ip) ==
  \E i \in 1..Len(batch) :
    batch[i].ip_address = ip /\ ~batch[i].ping_success

(* Tracked addresses that the batch observes as reachable. *)
Recovering(batch) == {ip \in Tracked : Observed(batch, ip) = "ok"}

C2_MonotoneCounter ==
  [][op' = "update" =>
       \A ip \in Tracked \cap Keys(timeout_csv') :
         /\ Count(timeout_csv', ip) >= Count(timeout_csv, ip)
         /\ (Count(timeout_csv', ip) = Count(timeout_csv, ip) + 1
               <=> ContainsFail(ping_results', ip))]_vars

(* C3: after an update that observed an address as reachable, the tracker  *)
(* file has no row for it.                                                 *)
C3_RecoveryDestroys ==
  op = "update" =>
    \A ip \in Addrs : Observed(ping_results, ip) = "ok" => ip \notin Tracked

(* C4: after every update, every alerted address is a tracked address.     *)
C4_LedgerWithinTracker ==
  op = "update" => alerted_list_csv \subseteq Tracked

ThresholdCrossing(ip) ==
  /\ ip \in Tracked
  /\ Count(timeout_csv, ip) = streak[ip]
  /\ (op = "update" /\ Observed(ping_results, ip) = "fail") =>
       /\ streak[ip] < whatsapp_threshold => ip \notin Keys(devices_to_alert)
       /\ streak[ip] = whatsapp_threshold =>
            /\ Len(SelectSeq(devices_to_alert,
                             LAMBDA r : r.ip_address = ip)) = 1
            /\ alert_delivery = "ok" => ip \in alerted_list_csv

C9_OneIncidentPerOutage == \A ip \in Addrs : incident_rows[ip] <= 1

(* C10: after every update, every address with an incident-tracking entry  *)
(* is tracked; and an entry appears only in an update in which the outage  *)
(* has lasted the incident threshold and the row was inserted.             *)
C10_IncidentTracking ==
  [][(op' = "update" => incident_tracking_csv' \subseteq Keys(timeout_csv'))
     /\ \A ip \in incident_tracking_csv' \ incident_tracking_csv :
          /\ op' = "update"
          /\ ip \in created_incidents'
          /\ ip \in Keys(timeout_csv')
          /\ now' - Get(timeout_csv', ip).first_timeout
               >= incident_threshold_minutes]_vars

(* C11: an address that has an incident-tracking entry and is observed as   *)
(* reachable has no entry after that same update, so that its next outage  *)
(* can open a new incident.                                                 *)
C11_IncidentReopen ==
  [][op' = "update" =>
       \A ip \in Recovering(ping_results') \cap incident_tracking_csv :
         ip \notin incident_tracking_csv']_vars

(* The snapshot file, and whether it holds a header and at least one row. *)
Snapshot == csv_dir[csv_path]

Populated(file) == file.exists /\ file.header /\ file.rows # <<>>

Complete(rows) == [exists |-> TRUE, header |-> TRUE, rows |-> rows]

(* The last result of a batch for an address. *)
Latest(results, ip) ==
  LET idx == {i \in 1..Len(results) : results[i].ip_address = ip}
  IN results[CHOOSE i \in idx : \A j \in idx : j <= i]

C13_SnapshotContent ==
  event = "published" =>
    LET rows == get_latest_ping_results_from_csv(0)
        results == pub_args.results
        A == pub_args.active_ips
    IN /\ Cardinality(Keys(rows)) = Len(rows)
       /\ \A ip \in Keys(rows) :
            ip \in Keys(results) \/ (A.given => ip \in A.ips)
       /\ \A ip \in Keys(results) :
            /\ ip \in Keys(rows)
            /\ Get(rows, ip) = CsvRow(Latest(results, ip))
       /\ (A.given /\ A.ips \subseteq Keys(results))
            => Keys(rows) = Keys(results)

C13_Witness ==
  /\ event = "published"
  /\ pub_args.active_ips.given
  /\ Len(pub_args.results) = 2
  /\ Cardinality(Keys(pub_args.results)) = 1
  /\ pub_args.results[1].ping_success # pub_args.results[2].ping_success
  /\ \E ip \in Keys(pub_before.rows) :
       ip \notin pub_args.active_ips.ips /\ ip \notin Keys(Snapshot.rows)

(* C14: the snapshot file is at every moment absent (before the first      *)
(* publication) or a complete table with a header and one row per address; *)
(* it changes only in the step that ends a publication, from the previous  *)
(* table to the complete new one; a read returns the rows of the file.     *)
C14_AtomicPublication ==
  /\ [](/\ Snapshot.exists =>
             /\ Snapshot.header
             /\ Cardinality(Keys(Snapshot.rows)) = Len(Snapshot.rows)
        /\ pub_pc # "idle" => Snapshot = pub_before)
  /\ [][/\ Snapshot' # Snapshot =>
             /\ event' = "published"
             /\ Snapshot = pub_before
             /\ Snapshot' = Complete(existing_data)
        /\ event' = "read" =>
             \/ read_result' = Snapshot.rows
             \/ /\ Snapshot.rows # <<>>
                /\ read_result' = <<Snapshot.rows[1]>>]_vars

C14_Witness ==
  /\ event = "read"
  /\ pub_pc = "writing"
  /\ csv_dir[tmp_path].rows # <<>>
  /\ Len(csv_dir[tmp_path].rows) < Len(existing_data)
  /\ Populated(pub_before)
  /\ read_result = pub_before.rows

(* C15, as stated: after a publication that failed, the snapshot file is   *)
(* as before and the temporary file does not exist.                        *)
C15_FailedPublication ==
  event \in {"failed", "failed, temporary file left"} =>
    /\ Snapshot = pub_before
    /\ ~csv_dir[tmp_path].exists

(* C15, amended: after a publication that failed, the snapshot file is as  *)
(* before, and the temporary file does not exist unless its removal failed *)
(* as well.                                                                 *)
C15_FailedPublicationBestEffort ==
  /\ event \in {"failed", "failed, temporary file left"} =>
       Snapshot = pub_before
  /\ event = "failed" => ~csv_dir[tmp_path].exists

C15_Witness ==
  /\ event = "failed"
  /\ Populated(pub_before)
  /\ existing_data # <<>>
  /\ existing_data # pub_before.rows

(* C16: during a write of an artefact, a reader finds the file as it was    *)
(* before the write or as it is after it: the snapshot, and the incident   *)
(* tracking file.                                                           *)
C16_AtomicArtefacts ==
  /\ pub_pc # "idle" => Snapshot = pub_before
  /\ tracking_pc = "open" =>
       incident_tracking_csv \in {tracking_before, tracking_target}

(* C17: a cycle of the loop that has published its snapshot has done the   *)
(* steps reconcile, probe, publish snapshot, update failure tracker,       *)
(* escalate incidents, record analytics, once each and in that order.      *)
C17_CycleOrdering ==
  \A t \in Threads :
    (loop_pc[t] = "sleep" /\ steps[t] # <<>>
       /\ steps[t][Len(steps[t])] = "publish")
    => steps[t] = <<"reconcile", "probe", "publish", "track", "escalate",
                    "analytics">>

(* C18: at most one cycle executes at any time, and a rebuild request is   *)
(* answered with 409 and runs no cycle while a cycle is in progress, and   *)
(* runs one cycle (answered with 200) otherwise.                            *)
C18_SingleFlight ==
  /\ Cardinality({t \in Threads : loop_pc[t] \in CyclePcs}) <= 1
  /\ svc_event = "rebuild" =>
       rebuild_status = IF InCycle THEN 409 ELSE 200

(* C19: stop() leaves the cycle that is executing as it is, and a loop     *)
(* that was running when stop() was called starts no further cycle.        *)
C19_StopSemantics ==
  [][/\ svc_event' = "stop" =>
          /\ loop_pc' = loop_pc
          /\ cycle_results' = cycle_results
          /\ csv_dir' = csv_dir
     /\ \A t \in Threads :
          stop_pending[t] => ~(loop_pc[t] = "while"
                               /\ loop_pc'[t] = "reconcile")]_vars

(* C20: a loop thread ends only when the service is no longer running,     *)
(* whatever a step of a cycle raises; and while the service is running     *)
(* another cycle is always eventually started.                              *)
C20_LoopResilience ==
  /\ [][\A t \in Threads :
          (loop_pc[t] # "exited" /\ loop_pc'[t] = "exited") => ~running]_vars
  /\ [](running => <>(~running \/ svc_event = "cycle start"))

(* A cycle starts in a loop whose previous iteration ended in the          *)
(* exception handler.                                                       *)
C20_Witness ==
  \E t \in Threads :
    /\ running
    /\ svc_event = "cycle start"
    /\ loop_pc[t] = "reconcile"
    /\ steps[t] # <<>>
    /\ steps[t][Len(steps[t])] = "handler"

(* C21: a cycle whose device set is empty goes to its sleep without a      *)
(* probe, and leaves the snapshot, the failure tracker, the alert ledger,  *)
(* the incident tracking file and the analytics log as they are.           *)
C21_EmptyInventorySkip ==
  [][\A t \in Threads :
       (loop_pc[t] = "devices" /\ loop_pc'[t] # "devices"
          /\ cycle_devices'[t] = {})
       => /\ loop_pc'[t] = "sleep"
          /\ steps'[t] = <<"reconcile">>
          /\ csv_dir' = csv_dir
          /\ timeout_csv' = timeout_csv
          /\ alerted_list_csv' = alerted_list_csv
          /\ incident_tracking_csv' = incident_tracking_csv
          /\ analytics_appended' = analytics_appended]_vars

(* A cycle has found no device while the snapshot holds rows, and sleeps.  *)
C21_Witness ==
  \E t \in Threads :
    /\ svc_event = "devices"
    /\ loop_pc[t] = "sleep"
    /\ steps[t] = <<"reconcile">>
    /\ csv_dir[csv_path].rows # <<>>

(* C22: calls of update_timeout_tracking exclude one another, and what a   *)
(* call writes is what it would write when run alone after the calls that  *)
(* ended before it: the files still are what the call read, and the count  *)
(* of an address rises by one per failing call.                             *)
C22_UpdateSerialisation ==
  /\ [](Cardinality({c \in Callers : upd_pc[c] = "locked"}) <= 1)
  /\ [](\A c \in Callers :
          upd_pc[c] = "locked" =>
            /\ upd_read[c].timeout_data = timeout_csv
            /\ upd_read[c].alerted_data = alerted_list_csv)
  /\ [][\A c \in Callers :
          (upd_pc[c] = "locked" /\ upd_pc'[c] = "idle"
             /\ Observed(upd_batch[c], "1.1.1.1") = "fail"
             /\ "1.1.1.1" \in Keys(timeout_csv))
          => /\ "1.1.1.1" \in Keys(timeout_csv')
             /\ Get(timeout_csv', "1.1.1.1").consecutive_timeouts
                  = Get(timeout_csv, "1.1.1.1").consecutive_timeouts + 1]_vars

(* A caller holds the lock after another caller's update counted a failure *)
(* of the device both report.                                               *)
C22_Witness ==
  \E c \in Callers, d \in Callers :
    /\ c # d
    /\ upd_pc[c] = "locked"
    /\ upd_batch[d] # <<>>
    /\ Observed(upd_batch[c], "1.1.1.1") = "fail"
    /\ Observed(upd_batch[d], "1.1.1.1") = "fail"
    /\ timeout_csv # <<>>

(* C23: of the results a batch holds for one address only the first is     *)
(* processed: the update leaves the failure tracker, the alert queue and   *)
(* the recovery notices as the first occurrences alone would; the count of *)
(* an address rises by at most 1, and the address is queued for at most    *)
(* one alert and gets at most one of an alert and a recovery notice.       *)
C23_BatchDeduplication ==
  [][op' = "update" =>
       LET batch == ping_results'
           first == SelectSeq(
                      [i \in 1..Len(batch) |-> [pos |-> i, r |-> batch[i]]],
                      LAMBDA e : \A j \in 1..(e.pos - 1) :
                                   batch[j].ip_address # e.r.ip_address)
           firsts == [i \in 1..Len(first) |-> first[i].r]
           st == ProcessResults(firsts, now,
                   [timeout_data     |-> timeout_csv,
                    alerted_data     |-> alerted_list_csv,
                    processed_ips    |-> {},
                    devices_to_alert |-> <<>>,
                    recovered_ips    |-> <<>>,
                    recovery_sent    |-> {}])
           count(td, ip) == IF ip \in Keys(td)
                            THEN Get(td, ip).consecutive_timeouts ELSE 0
       IN /\ timeout_csv' = _write_timeout_data(timeout_csv, st.timeout_data)
          /\ devices_to_alert' = st.devices_to_alert
          /\ recovery_sent' = st.recovery_sent
          /\ \A ip \in Addrs :
               /\ count(timeout_csv', ip) <= count(timeout_csv, ip) + 1
               /\ Cardinality({i \in 1..Len(devices_to_alert') :
                     devices_to_alert'[i].ip_address = ip}) <= 1
               /\ ~(ip \in Keys(devices_to_alert') /\ ip \in recovery_sent')
  ]_vars

(* An update whose batch reports a tracked address twice, failing first    *)
(* and answering second, has counted one failure and queued one alert.     *)
C23_Witness ==
  /\ op = "update"
  /\ Len(ping_results) = 2
  /\ ping_results[1].ip_address = ping_results[2].ip_address
  /\ ~ping_results[1].ping_success
  /\ ping_results[2].ping_success
  /\ Len(devices_to_alert) = 1
  /\ timeout_csv # <<>>
  /\ timeout_csv[1].consecutive_timeouts = whatsapp_threshold

(* C24: every result of the prober that reports success carries a round    *)
(* trip time and no error, and every result that reports failure carries   *)
(* an error and no round trip time.                                         *)
C24_ProbeResultShape ==
  \A i \in 1..Len(probe_results) :
    LET r == probe_results[i]
    IN /\ r.ping_success =>
            (r.response_time_ms # "None" /\ r.error_message = "None")
       /\ ~r.ping_success =>
            (r.response_time_ms = "None" /\ r.error_message # "None")

(* A call returned a result of the system ping fallback, a result of the   *)
(* exception wrapper, or both.                                              *)
C24_Witness ==
  /\ probe_event = "completed"
  /\ Len(probe_results) = 2
  /\ probe_results[1].ping_method = "system_ping"
  /\ probe_results[1].ping_success
  /\ probe_results[2].error_message = "Ping execution error"

(* C25: ping_devices_concurrent returns one result for each device it was  *)
(* given, whatever the probes met, and for a probe that raised a failing   *)
(* result that carries the error.                                           *)
C25_FanOutTotality ==
  probe_event = "completed" =>
    /\ Len(probe_results) = Len(probe_devices)
    /\ \A ip \in Addrs :
         Cardinality({i \in 1..Len(probe_results) :
                        probe_results[i].ip_address = ip})
           = Cardinality({i \in 1..Len(probe_devices) :
                            probe_devices[i] = ip})
    /\ \A i \in 1..Len(probe_devices) :
         probe_outcomes[i].future = "raised" =>
           \E j \in 1..Len(probe_results) :
             /\ probe_results[j].ip_address = probe_devices[i]
             /\ ~probe_results[j].ping_success
             /\ probe_results[j].error_message = "Ping execution error"

(* One probe of a call raised and the other was answered, and the call     *)
(* returned both results.                                                   *)
C25_Witness ==
  /\ probe_event = "completed"
  /\ Len(probe_devices) = 2
  /\ probe_outcomes[1].future = "raised"
  /\ probe_outcomes[2].future = "returned"
  /\ \E j \in 1..2 : probe_results[j].ping_success

(* C26: an update of the failure tracker appends one point to the          *)
(* analytics log of the day, and the point is the number of entries of     *)
(* the failure tracker file as the update left it.                          *)
C26_AnalyticsAppend ==
  op = "update" => analytics_appended = <<Len(timeout_csv)>>

(* C27: of two consecutive updates with the same batch and the same        *)
(* outcomes of the calls they make, the second leaves the failure tracker  *)
(* file as the first left it.                                               *)
C27_CycleIdempotence ==
  [][(op = "update" /\ op' = "update" /\ ping_results' = ping_results
        /\ alert_delivery' = alert_delivery)
     => timeout_csv' = timeout_csv]_vars

(* C27, amended: the same, for a batch in which no address is reported as  *)
(* failing by its first result.                                             *)
C27_CycleIdempotenceNoFailure ==
  [][(op = "update" /\ op' = "update" /\ ping_results' = ping_results
        /\ alert_delivery' = alert_delivery
        /\ \A ip \in Addrs : Observed(ping_results', ip) # "fail")
     => timeout_csv' = timeout_csv]_vars

(* An update whose batch reports an answer and no failure has run, and the *)
(* failure tracker still holds a row for the update to leave as it is.     *)
C27_Witness ==
  /\ op = "update"
  /\ ping_results # <<>>
  /\ \A ip \in Addrs : Observed(ping_results, ip) # "fail"
  /\ timeout_csv # <<>>
  /\ streak[ping_results[1].ip_address] = 0
  /\ analytics_appended = <<Len(timeout_csv)>>

(* C28: a check reports a change only when the check interval has passed   *)
(* since the previous check and the signature of the active devices        *)
(* differs from the stored one; the stored signature then is the current   *)
(* one; and an edit of a column outside the signature is never reported.   *)
C28_ChangeDetection ==
  [][check_result' = "changed" =>
       /\ monitor_now - last_device_check >= device_check_interval
       /\ SignatureOf(inventory) # device_cache_signature
       /\ device_cache_signature' = SignatureOf(inventory)]_vars

(* C29: the answer of GET /ping/latest holds at most 1000 rows, and at     *)
(* most limit rows when limit is between 0 and 1000.                        *)
C29_RowLimit ==
  view = "get_latest_ping_results" =>
    /\ view_count <= 1000
    /\ (0 <= view_arg /\ view_arg <= 1000) => view_count <= view_arg

DataWritten(batch) ==
  ProcessResults(batch, now,
    [timeout_data     |-> timeout_csv,
     alerted_data     |-> alerted_list_csv,
     processed_ips    |-> {},
     devices_to_alert |-> <<>>,
     recovered_ips    |-> <<>>,
     recovery_sent    |-> {}]).timeout_data

FallbackRule(r, o, invoked) ==
  LET library_ok == o.ping3 \in RttValues
      system_ok  == o.system \in {"parsed", "unparsed"}
  IN /\ r.ping_success = (library_ok \/ (o.fallback /\ system_ok))
     /\ invoked => ~library_ok
     /\ r.ping_method = IF r.ping_success /\ ~library_ok
                        THEN "system_ping" ELSE "ping3"
     /\ ~r.ping_success =>
          r.error_message =
            CASE o.ping3 = "False" -> "Destination host unreachable (ping3)"
              [] o.ping3 = "None"  -> "No response - timeout (ping3)"
              [] o.ping3 = "raise" -> "Ping3 error"

(* C33: the final ok of a probe is (library ok) or (Linux with the         *)
(* fallback enabled and system ping ok); the system ping is invoked only   *)
(* when the library probe failed; the method recorded is the one that      *)
(* produced the result; when both fail the library result and its error    *)
(* text are kept.                                                           *)
C33_ProbeFallback ==
  probe_event = "completed" =>
    /\ \A i \in 1..Len(probe_devices) :
         probe_outcomes[i].future = "returned" =>
           \E k \in 1..Len(probe_results) :
             /\ probe_results[k].ip_address = probe_devices[i]
             /\ FallbackRule(probe_results[k], probe_outcomes[i],
                             i \in probe_system_calls)
    /\ \A k \in 1..Len(probe_results) :
         probe_results[k].ping_method # "None" =>
           \E i \in 1..Len(probe_devices) :
             /\ probe_results[k].ip_address = probe_devices[i]
             /\ probe_outcomes[i].future = "returned"
             /\ FallbackRule(probe_results[k], probe_outcomes[i],
                             i \in probe_system_calls)

(* One device was rescued by the system ping and for another both probes   *)
(* failed, the library reporting the host unreachable.                      *)
C33_Witness ==
  /\ probe_event = "completed"
  /\ probe_system_calls = {1, 2}
  /\ \E k \in 1..Len(probe_results) :
       /\ probe_results[k].ping_success
       /\ probe_results[k].ping_method = "system_ping"
  /\ \E k \in 1..Len(probe_results) :
       /\ ~probe_results[k].ping_success
       /\ probe_results[k].error_message
            = "Destination host unreachable (ping3)"

(* C34: when an address answered in one update and fails in the next, the  *)
(* tracker then holds it with count 1 and with first and last failure time *)
(* equal to the time of that update.                                        *)
C34_FreshEpisode ==
  [][\A ip \in Addrs :
       (/\ op = "update"
        /\ Observed(ping_results, ip) = "ok"
        /\ op' = "update"
        /\ Observed(ping_results', ip) = "fail")
         => /\ ip \in Keys(timeout_csv')
            /\ Get(timeout_csv', ip).consecutive_timeouts = 1
            /\ Get(timeout_csv', ip).first_timeout = now'
            /\ Get(timeout_csv', ip).last_timeout = now']_vars

C36_SingleLoop ==
  [][/\ \A t \in Threads :
          (loop_pc[t] = "while" /\ loop_pc'[t] = "reconcile")
            => \A u \in Threads \ {t} : ~Alive(u)
     /\ (svc_event' = "start" /\ running)
          => (started' = started /\ loop_pc' = loop_pc)]_vars

(* The tracker file after the reset and then update_timeout_tracking(batch) *)
(* one after the other.                                                      *)
ResetThenUpdate(batch) ==
  _write_timeout_data(<<>>,
    ProcessResults(batch, now,
      [timeout_data     |-> <<>>,
       alerted_data     |-> alerted_list_csv,
       processed_ips    |-> {},
       devices_to_alert |-> <<>>,
       recovered_ips    |-> <<>>,
       recovery_sent    |-> {}]).timeout_data)

(* C37: when the reset ran between the reads and the writes of an update,  *)
(* the tracker file the update leaves is that of one of the two serial     *)
(* orders: empty (update, then reset) or what the update makes of the      *)
(* empty file (reset, then update).                                         *)
C37_ResetAtomic ==
  [][\A c \in Callers :
       (/\ upd_pc[c] = "locked"
        /\ upd_pc'[c] = "idle"
        /\ op = "reset")
         => timeout_csv' \in {<<>>, ResetThenUpdate(upd_batch[c])}]_vars

(* C38: wherever the process stopped inside an update, the files it        *)
(* restarts from have every alerted address tracked, and no address has    *)
(* two alerts delivered in one outage episode.                             *)
C38_CrashConsistency ==
  /\ alerted_list_csv \subseteq Keys(timeout_csv)
  /\ \A ip \in Addrs : alert_delivered[ip] <= 1

(* C39: an address that from some update on is in no batch is from some    *)
(* time on neither in the tracker file nor in the alert ledger.            *)
C39_StaleDeviceRemoval ==
  \A ip \in Addrs :
    <>[](Observed(ping_results, ip) = "none")
      => <>[](ip \notin Keys(timeout_csv) /\ ip \notin alerted_list_csv)

(* C40: as in a serial execution, an update of a worker process whose      *)
(* batch reports a tracked address failing leaves its count one above the  *)
(* count in the file it writes over, and no address has two alerts         *)
(* delivered in one outage episode.                                         *)
C40_MultiProcessUpdates ==
  [][\A c \in Callers :
       (upd_pc[c] = "locked" /\ upd_pc'[c] = "idle")
         => /\ \A ip \in Keys(timeout_csv) :
                 Observed(upd_batch[c], ip) = "fail"
                   => /\ ip \in Keys(timeout_csv')
                      /\ Count(timeout_csv', ip) = Count(timeout_csv, ip) + 1
            /\ \A ip \in Addrs : alert_delivered'[ip] <= 1]_vars

====
